---- MODULE Spec2Model ----
(***************************************************************************)
(* Model of imperative/python/megengine/core/tensor/tensor_wrapper.py:     *)
(* the shape validation of _reshape, the dtype guard of the logical        *)
(* operators, the scalar conversions, and the wrapper objects with their   *)
(* rebinding operations (_reset, in-place operators, __setitem__) and      *)
(* their generator-based iteration.                                        *)
(***************************************************************************)
EXTENDS Integers, Sequences, FiniteSets, TLC

VARIABLES
    pending,    \* the call about to be made to a pure function (its inputs)
    last,       \* the record of the most recent call: inputs and outcome
    trace,      \* what the most recent call did, in order: collaborator
                \* invocations and writes to a wrapper's __wrapped__
    wrappers,   \* wrapper object id -> [cls, ref]; cls "none": not constructed;
                \* ref is __wrapped__: a tensor id, or 0 for Python's None
    tensors,    \* the primitive tensors allocated so far: id -> [dtype, shape]
    iters       \* the generator objects made by __iter__

vars == <<pending, last, trace, wrappers, tensors, iters>>

(***************************************************************************)
(* Bounds of the model.                                                    *)
(***************************************************************************)
MaxShapeLen == 3    \* longest reshape target
MaxDim == 1         \* largest entry of a reshape target
NegDepth == 2       \* reshape target entries go down to -NegDepth
MaxRank == 2        \* highest rank of a tensor whose conversion is tried
MaxExtent == 2      \* largest extent of a dimension of such a tensor
MaxWrappers == 2    \* wrapper objects alive at once
MaxTensors == 2     \* primitive tensors allocated in one run
MaxIters == 1       \* generator objects made in one run
MaxLen == 2         \* largest first extent of an iterated tensor

NoCall == [op |-> "none"]
NoAxis == -1        \* Python's None for unspec_axis (an index is >= 0)

SeqsUpTo(S, n) == UNION {[1..k -> S] : k \in 0..n}

(***************************************************************************)
(* _reshape.  A target entry is given as twice its value, so that the      *)
(* entries a float array holds (-1.5 is -3) are inputs too: int() is a     *)
(* conversion and truncates toward zero.                                   *)
(***************************************************************************)
RawEntries == (-2 * NegDepth)..(2 * MaxDim)

PyInt(h) == IF h >= 0 THEN h \div 2 ELSE -((-h) \div 2)

\* shape = tuple(map(int, shape))
IntShape(raw) == [k \in 1..Len(raw) |-> PyInt(raw[k])]

Raise(exc, fmt, args, tr) ==
    [status |-> "raise", exc |-> exc, fmt |-> fmt, args |-> args, trace |-> tr]

Return(ret, tr) ==
    [status |-> "ok", exc |-> "", fmt |-> "", args |-> ret, trace |-> tr]

\* after the loop: Const(shape, ...)(x), then apply(Reshape(unspec_axis), x, shape)
ReshapeApply(shape, unspec_axis) ==
    Return(<<unspec_axis>>,
           << [ev |-> "Const", arg |-> shape],
              [ev |-> "apply", op |-> "Reshape", unspec_axis |-> unspec_axis] >>)

RECURSIVE ReshapeScanLast(_, _, _)
ReshapeScanLast(shape, k, unspec_axis) ==
    IF k > Len(shape) THEN ReshapeApply(shape, unspec_axis)
    ELSE IF shape[k] < 0
         THEN IF shape[k] # -1
              THEN Raise("ValueError", "expect shape[{}] >= -1, got {}",
                         <<k - 1, shape[k]>>, <<>>)
              ELSE ReshapeScanLast(shape, k + 1, k - 1)
         ELSE ReshapeScanLast(shape, k + 1, unspec_axis)

RECURSIVE ReshapeScanAbs(_, _, _)
ReshapeScanAbs(shape, k, unspec_axis) ==
    IF k > Len(shape) THEN ReshapeApply(shape, unspec_axis)
    ELSE IF shape[k] < 0
         THEN IF unspec_axis # NoAxis
              THEN Raise("ValueError", "multiple -1 in shape: {} & {}",
                         <<unspec_axis, k - 1>>, <<>>)
              ELSE ReshapeScanAbs(shape, k + 1, k - 1)
         ELSE ReshapeScanAbs(shape, k + 1, unspec_axis)

\* for i, s in enumerate(shape): ...   (k is i + 1)
RECURSIVE ReshapeScan(_, _, _)
ReshapeScan(shape, k, unspec_axis) ==
    IF k > Len(shape) THEN ReshapeApply(shape, unspec_axis)
    ELSE IF shape[k] < 0
         THEN IF shape[k] # -1
              THEN Raise("ValueError", "expect shape[{}] >= -1, got {}",
                         <<k - 1, shape[k]>>, <<>>)
              ELSE IF unspec_axis # NoAxis
                   THEN Raise("ValueError", "multiple -1 in shape: {} & {}",
                              <<unspec_axis, k - 1>>, <<>>)
                   ELSE ReshapeScan(shape, k + 1, k - 1)
         ELSE ReshapeScan(shape, k + 1, unspec_axis)

\* _reshape(x, shape); a tensor-like shape is first read with .numpy()
Reshape(raw) == ReshapeScan(IntShape(raw), 1, NoAxis)

\* ArrayMethodMixin.reshape(*args): reshape(a, b, c) and reshape((a, b, c))
\* both reach _reshape with the entries; "tensor" is _reshape called with a
\* tensor-like shape.
ReshapeForms == {"varargs", "sequence", "tensor"}

ReshapeInputs ==
    {[op |-> "reshape", form |-> f, shape |-> s] :
        f \in ReshapeForms, s \in SeqsUpTo(RawEntries, MaxShapeLen)}

Idle ==
    /\ trace = <<>>
    /\ wrappers = [w \in 1..MaxWrappers |-> [cls |-> "none", ref |-> 0]]
    /\ tensors = <<>>
    /\ iters = <<>>

DoReshape ==
    /\ pending.op = "reshape"
    /\ LET r == Reshape(pending.shape)
       IN  /\ last' = [op |-> "reshape", form |-> pending.form,
                       shape |-> pending.shape, status |-> r.status,
                       exc |-> r.exc, fmt |-> r.fmt, args |-> r.args]
           /\ trace' = r.trace
    /\ pending' = NoCall
    /\ UNCHANGED <<wrappers, tensors, iters>>

InitReshape ==
    /\ pending \in ReshapeInputs
    /\ last = NoCall
    /\ Idle

SpecReshape == InitReshape /\ [][DoReshape]_vars

(***************************************************************************)
(* The logical operators built by _logical_binary_elwise.  An operand is   *)
(* described by its kind and by the type of what it holds; only a wrapper, *)
(* a primitive tensor and a numpy array have a dtype attribute, a Python   *)
(* scalar has none.                                                        *)
(***************************************************************************)
DTypes == {"bool", "int32", "float32"}

Missing == "<no attribute>"     \* reading the attribute raises AttributeError

OperandKinds == {"wrapper", "tensor", "ndarray", "pyscalar"}

Operands == [k : OperandKinds, elem : DTypes]

\* value.dtype
DtypeAttr(v) == IF v.k \in {"wrapper", "tensor", "ndarray"} THEN v.elem ELSE Missing

\* _elwise(*args, mode): convert_inputs, then apply(Elemwise(mode), *args)
Elwise(args, mode) ==
    Return(<<>>, << [ev |-> "apply", op |-> "Elemwise", mode |-> mode, args |-> args] >>)

\* f(self, value) of _logical_binary_elwise(mode, rev):
\*   if self.dtype != np.bool_ or value.dtype != np.bool_: raise TypeError
\* `or` evaluates value.dtype only when self.dtype is bool.
LogicalBinary(selfDtype, valueDtype, mode, rev) ==
    IF selfDtype = Missing
    THEN Raise("AttributeError", "dtype", <<>>, <<>>)
    ELSE IF selfDtype # "bool"
    THEN Raise("TypeError", "{} requires 2 bool tensors", <<mode>>, <<>>)
    ELSE IF valueDtype = Missing
    THEN Raise("AttributeError", "dtype", <<>>, <<>>)
    ELSE IF valueDtype # "bool"
    THEN Raise("TypeError", "{} requires 2 bool tensors", <<mode>>, <<>>)
    ELSE Elwise(IF rev THEN <<"value", "self">> ELSE <<"self", "value">>, mode)

LogicalModes == {"AND", "OR", "XOR"}

LogicalInputs ==
    {[op |-> "logical", mode |-> m, rev |-> r, self |-> [k |-> "wrapper", elem |-> d],
      value |-> v] :
        m \in LogicalModes, r \in BOOLEAN, d \in DTypes, v \in Operands}

DoLogical ==
    /\ pending.op = "logical"
    /\ LET r == LogicalBinary(DtypeAttr(pending.self), DtypeAttr(pending.value),
                              pending.mode, pending.rev)
       IN  /\ last' = [op |-> "logical", mode |-> pending.mode, rev |-> pending.rev,
                       self |-> pending.self, value |-> pending.value,
                       status |-> r.status, exc |-> r.exc, fmt |-> r.fmt,
                       args |-> r.args]
           /\ trace' = r.trace
    /\ pending' = NoCall
    /\ UNCHANGED <<wrappers, tensors, iters>>

InitLogical ==
    /\ pending \in LogicalInputs
    /\ last = NoCall
    /\ Idle

SpecLogical == InitLogical /\ [][DoLogical]_vars

(***************************************************************************)
(* The conversions __index__, __bool__, __int__, __float__, __complex__,   *)
(* all through item().  elem is the Python value numpy().item() gives for  *)
(* the single element: a bool, an int, a finite float, nan or an infinity. *)
(***************************************************************************)
Conversions == {"index", "bool", "int", "float", "complex"}

Elems == {"bool", "int", "float", "nan", "inf"}

\* size: np.prod(self.shape).item(); the product of no extents is 1
RECURSIVE Size(_)
Size(shape) == IF shape = <<>> THEN 1 ELSE Head(shape) * Size(Tail(shape))

ItemUnchecked(shape, elem) == Return(<<elem>>, << [ev |-> "numpy"] >>)

\* item(): assert self.size == 1; return self.numpy().item()
Item(shape, elem) ==
    IF Size(shape) # 1
    THEN Raise("AssertionError", "self.size == 1", <<>>, <<>>)
    ELSE Return(<<elem>>, << [ev |-> "numpy"] >>)

\* self.item().__index__(), bool(...), int(...), float(...), complex(...)
\* applied to the Python value
FromScalar(conv, elem) ==
    CASE conv = "index" /\ elem \notin {"bool", "int"} ->
            Raise("AttributeError", "__index__", <<>>, <<>>)
      [] conv = "int" /\ elem = "nan" -> Raise("ValueError", "nan", <<>>, <<>>)
      [] conv = "int" /\ elem = "inf" -> Raise("OverflowError", "inf", <<>>, <<>>)
      [] OTHER -> Return(<<conv, elem>>, <<>>)

Convert(conv, shape, elem) ==
    LET it == Item(shape, elem)
    IN  IF it.status = "raise" THEN it
        ELSE LET r == FromScalar(conv, it.args[1])
             IN  [r EXCEPT !.trace = it.trace \o r.trace]

ConvInputs ==
    {[op |-> "convert", conv |-> c, shape |-> s, elem |-> e] :
        c \in Conversions, s \in SeqsUpTo(0..MaxExtent, MaxRank), e \in Elems}

DoConvert ==
    /\ pending.op = "convert"
    /\ LET r == Convert(pending.conv, pending.shape, pending.elem)
       IN  /\ last' = [op |-> "convert", conv |-> pending.conv,
                       shape |-> pending.shape, elem |-> pending.elem,
                       status |-> r.status, exc |-> r.exc, fmt |-> r.fmt,
                       args |-> r.args]
           /\ trace' = r.trace
    /\ pending' = NoCall
    /\ UNCHANGED <<wrappers, tensors, iters>>

InitConvert ==
    /\ pending \in ConvInputs
    /\ last = NoCall
    /\ Idle

SpecConvert == InitConvert /\ [][DoConvert]_vars

(***************************************************************************)
(* Wrapper objects.  A Python value handed to an operation is a record:    *)
(* a wrapper (with its class and what it wraps), a primitive tensor, a     *)
(* numpy array, a Python scalar or None.                                   *)
(***************************************************************************)
NoneRef == 0

Value(k, id, elem, shape, cls, ref) ==
    [k |-> k, id |-> id, elem |-> elem, shape |-> shape, cls |-> cls, ref |-> ref]

WrapperVal(ws, w) == Value("wrapper", w, "", <<>>, ws[w].cls, ws[w].ref)

\* the wrapper a non-mutating operator or a constructor call returns: an
\* object of its own, in no variable of the caller
TempWrapper(cls, ref) == Value("wrapper", 0, "", <<>>, cls, ref)

TensorVal(t) == Value("tensor", t, "", <<>>, "", NoneRef)

NdArray(d, shape) == Value("ndarray", 0, d, shape, "", NoneRef)

PyScalar(d) == Value("pyscalar", 0, d, <<>>, "", NoneRef)

NoneVal == Value("None", 0, "", <<>>, "", NoneRef)

Live(ws) == {w \in DOMAIN ws : ws[w].cls # "none"}

\* GenericTensorWrapper.dtype: self.__wrapped__.dtype
WrapperDtype(ws, ts, w) ==
    IF ws[w].ref = NoneRef THEN Missing ELSE ts[ws[w].ref].dtype

\* value.dtype for any operand
ValueDtype(ts, v) ==
    CASE v.k = "wrapper" -> IF v.ref = NoneRef THEN Missing ELSE ts[v.ref].dtype
      [] v.k = "tensor" -> ts[v.id].dtype
      [] v.k = "ndarray" -> v.elem
      [] OTHER -> Missing

Outcome(status, exc, ws, ts, ref, tr) ==
    [status |-> status, exc |-> exc, ws |-> ws, ts |-> ts, ref |-> ref, trace |-> tr]

RebindEv(x, r) == [ev |-> "rebind", w |-> x, ref |-> r]

RebindAliased(ws, x, r) ==
    [w \in DOMAIN ws |->
        IF w = x \/ (ws[w].cls # "none" /\ ws[w].ref = ws[x].ref)
        THEN [ws[w] EXCEPT !.ref = r] ELSE ws[w]]

\* self.__wrapped__ = r
Rebind(ws, x, r) == [ws EXCEPT ![x].ref = r]

\* TensorWrapper.__init__(data, dtype, device) up to super().__init__: the
\* reference the new wrapper will hold.  dtype "" is the default None.
TensorWrapperInit(ws, ts, data, dtype) ==
    CASE data.k = "wrapper" -> Outcome("ok", "", ws, ts, data.ref, <<>>)
      [] data.k = "tensor" -> Outcome("ok", "", ws, ts, data.id, <<>>)
      [] data.k = "None" -> Outcome("raise", "AssertionError", ws, ts, NoneRef, <<>>)
      [] OTHER ->
            IF Len(ts) >= MaxTensors
            THEN Outcome("full", "", ws, ts, NoneRef, <<>>)
            ELSE Outcome("ok", "", ws,
                         Append(ts, [dtype |-> IF dtype = "" THEN data.elem ELSE dtype,
                                     shape |-> data.shape]),
                         Len(ts) + 1,
                         << [ev |-> "as_raw_tensor", dtype |-> dtype] >>)

\* GenericTensorWrapper._reset(self, other)
GenericReset(ws, ts, x, other) ==
    IF other.k # "wrapper"
    THEN Outcome("raise", "TypeError", ws, ts, NoneRef, <<>>)
    ELSE Outcome("ok", "", Rebind(ws, x, other.ref), ts, other.ref,
                 <<RebindEv(x, other.ref)>>)

\* TensorWrapper._reset(self, other); the last branch evaluates self.dtype and
\* self.device, constructs type(self)(other, ...) and resets to it
TensorReset(ws, ts, x, other) ==
    CASE other.k = "wrapper" ->
            Outcome("ok", "", Rebind(ws, x, other.ref), ts, other.ref,
                    <<RebindEv(x, other.ref)>>)
      [] other.k = "tensor" ->
            Outcome("ok", "", Rebind(ws, x, other.id), ts, other.id,
                    <<RebindEv(x, other.id)>>)
      [] OTHER ->
            IF WrapperDtype(ws, ts, x) = Missing
            THEN Outcome("raise", "AttributeError", ws, ts, NoneRef, <<>>)
            ELSE LET c == TensorWrapperInit(ws, ts, other, WrapperDtype(ws, ts, x))
                 IN  IF c.status # "ok" THEN c
                     ELSE Outcome("ok", "", Rebind(ws, x, c.ref), c.ts, c.ref,
                                  c.trace \o <<RebindEv(x, c.ref)>>)

\* self._reset(other), by the class of self
Reset(ws, ts, x, other) ==
    IF ws[x].cls = "Generic" THEN GenericReset(ws, ts, x, other)
    ELSE TensorReset(ws, ts, x, other)

(***************************************************************************)
(* What a collaborator (apply behind _elwise, indexing.setitem) gives back *)
(* is not decided here: it raises, returns the NotImplemented sentinel, or *)
(* returns a new tensor with some dtype and shape.                         *)
(***************************************************************************)
Out(kind, dtype, shape) == [kind |-> kind, dtype |-> dtype, shape |-> shape]

Outs(D, S) ==
    {Out("raise", "", <<>>), Out("NotImplemented", "", <<>>)}
        \cup {Out("tensor", d, sh) : d \in D, sh \in S}

\* a collaborator computes a tensor only from operands that hold one
Computable(ws, x, v) ==
    /\ ws[x].ref # NoneRef
    /\ v.k # "None"
    /\ v.k = "wrapper" => v.ref # NoneRef

\* the collaborator's result for a wrapper operand: a new wrapper of the
\* operand's class around a new tensor
Collaborate(ws, ts, x, out, ev) ==
    CASE out.kind = "raise" -> Outcome("raise", "EngineError", ws, ts, NoneRef, <<ev>>)
      [] out.kind = "NotImplemented" ->
            Outcome("NotImplemented", "", ws, ts, NoneRef, <<ev>>)
      [] OTHER ->
            IF Len(ts) >= MaxTensors
            THEN Outcome("full", "", ws, ts, NoneRef, <<>>)
            ELSE Outcome("ok", "", ws,
                         Append(ts, [dtype |-> out.dtype, shape |-> out.shape]),
                         Len(ts) + 1, <<ev>>)

\* the non-mutating operator f(self, value): __add__ = _binary_elwise("ADD"),
\* __and__ = _logical_binary_elwise("AND"), ...
BinaryOp(ws, ts, x, mode, v, out) ==
    LET guard == IF mode \in LogicalModes
                 THEN LogicalBinary(WrapperDtype(ws, ts, x), ValueDtype(ts, v),
                                    mode, FALSE)
                 ELSE Elwise(<<"self", "value">>, mode)
    IN  IF guard.status = "raise"
        THEN Outcome("raise", guard.exc, ws, ts, NoneRef, <<>>)
        ELSE Collaborate(ws, ts, x, out, guard.trace[1])

InplaceNoRebind(ws, ts, x, mode, v, out) ==
    LET r == BinaryOp(ws, ts, x, mode, v, out)
    IN  CASE r.status = "NotImplemented" ->
                Outcome("raise", "NotImplementedError", ws, ts, NoneRef, r.trace)
          [] OTHER -> r

InplaceResetFirst(ws, ts, x, mode, v, out) ==
    LET r == BinaryOp(ws, ts, x, mode, v, out)
        rs == Reset(ws, r.ts, x, TempWrapper(ws[x].cls, r.ref))
    IN  CASE r.status = "NotImplemented" ->
                Outcome("raise", "NotImplementedError", rs.ws, ts, NoneRef,
                        r.trace \o rs.trace)
          [] r.status # "ok" -> r
          [] OTHER -> [rs EXCEPT !.trace = r.trace \o rs.trace, !.ref = r.ref]

\* g(self, value) of _inplace(f)
Inplace(ws, ts, x, mode, v, out) ==
    LET r == BinaryOp(ws, ts, x, mode, v, out)
    IN  CASE r.status = "NotImplemented" ->
                Outcome("raise", "NotImplementedError", ws, ts, NoneRef, r.trace)
          [] r.status # "ok" -> r
          [] OTHER ->
                LET rs == Reset(ws, r.ts, x, TempWrapper(ws[x].cls, r.ref))
                IN  [rs EXCEPT !.trace = r.trace \o rs.trace, !.ref = r.ref]

Indices == {"Ellipsis", "index"}

SetItemDirect(ws, ts, x, index, v, out) == Reset(ws, ts, x, v)

\* ArrayMethodMixin.__setitem__(self, index, value)
SetItem(ws, ts, x, index, v, out) ==
    IF index # "Ellipsis"
    THEN LET r == Collaborate(ws, ts, x, out,
                              [ev |-> "setitem", w |-> x])
         IN  IF r.status # "ok" THEN r
             ELSE LET rs == Reset(ws, r.ts, x, TempWrapper(ws[x].cls, r.ref))
                  IN  [rs EXCEPT !.trace = r.trace \o rs.trace, !.ref = r.ref]
    ELSE Reset(ws, ts, x, v)

(***************************************************************************)
(* The operations as actions.                                              *)
(***************************************************************************)
\* what the caller observes of a call; of a call that raised, the exception
\* (and, for a constructor, what it was given)
Call(op, x, v, mode, index, r, ret) ==
    IF r.status = "ok"
    THEN [op |-> op, self |-> x, arg |-> [k |-> v.k, id |-> v.id], index |-> index,
          status |-> r.status, exc |-> r.exc, ret |-> ret, ref |-> r.ref]
    ELSE [op |-> op, self |-> 0,
          arg |-> [k |-> IF op = "TensorWrapper" THEN v.k ELSE "", id |-> 0],
          index |-> "", status |-> r.status, exc |-> r.exc, ret |-> 0, ref |-> NoneRef]

Finish(r, rec) ==
    /\ r.status \in {"ok", "raise"}
    /\ wrappers' = r.ws
    /\ tensors' = r.ts
    /\ trace' = r.trace
    /\ last' = rec
    /\ UNCHANGED <<pending, iters>>

NextSlot == Cardinality(Live(wrappers)) + 1

\* GenericTensorWrapper.__init__(self, data): self.__wrapped__ = data
GenericInit(ws, ts, data) ==
    LET r == IF data.k = "tensor" THEN data.id ELSE NoneRef
    IN  Outcome("ok", "", [ws EXCEPT ![NextSlot] = [cls |-> "Generic", ref |-> r]],
                ts, r, <<>>)

NewGeneric(data) ==
    /\ NextSlot <= MaxWrappers
    /\ data.k \in {"tensor", "None"}
    /\ LET r == GenericInit(wrappers, tensors, data)
       IN  Finish(r, Call("GenericTensorWrapper", NextSlot, data, "", "", r,
                          IF r.status = "ok" THEN NextSlot ELSE 0))

\* TensorWrapper.__init__(self, data, dtype, device), super().__init__ included
NewTensorWrapper(data, dtype) ==
    /\ NextSlot <= MaxWrappers
    /\ LET c == TensorWrapperInit(wrappers, tensors, data, dtype)
           r == IF c.status # "ok" THEN c
                ELSE [c EXCEPT !.ws = [c.ws EXCEPT ![NextSlot] =
                                          [cls |-> "Tensor", ref |-> c.ref]]]
       IN  Finish(r, Call("TensorWrapper", NextSlot, data, dtype, "", r,
                          IF r.status = "ok" THEN NextSlot ELSE 0))

DoReset(x, other) ==
    /\ x \in Live(wrappers)
    /\ LET r == Reset(wrappers, tensors, x, other)
       IN  Finish(r, Call("_reset", x, other, "", "", r, 0))

DoInplace(x, mode, v, out) ==
    /\ x \in Live(wrappers)
    /\ out.kind = "tensor" =>
            Computable(wrappers, x, v) /\ out.dtype = WrapperDtype(wrappers, tensors, x)
    /\ LET r == Inplace(wrappers, tensors, x, mode, v, out)
       IN  Finish(r, Call("inplace", x, v, mode, "", r,
                          IF r.status = "ok" THEN x ELSE 0))

DoSetItem(x, index, v, out) ==
    /\ x \in Live(wrappers)
    /\ out.kind # "NotImplemented"
    /\ out.kind = "tensor" =>
            Computable(wrappers, x, v) /\ out.dtype = WrapperDtype(wrappers, tensors, x)
    /\ index = "Ellipsis" => out.kind = "raise"
    /\ LET r == SetItem(wrappers, tensors, x, index, v, out)
       IN  Finish(r, Call("__setitem__", x, v, "", index, r, 0))

\* what a caller may pass to a constructor, to _reset or as the new value
Args(D, S) ==
    {WrapperVal(wrappers, w) : w \in Live(wrappers)}
        \cup {TensorVal(t) : t \in 1..Len(tensors)}
        \cup {NdArray(d, sh) : d \in D, sh \in S}
        \cup {NoneVal}

\* what a caller may pass as the other operand of an operator
Operands2(D, S) ==
    {WrapperVal(wrappers, w) : w \in Live(wrappers)}
        \cup {NdArray(d, sh) : d \in D, sh \in S}
        \cup {PyScalar("bool"), NoneVal}

WrapperDTypes == {"bool", "float32"}

WrapperShapes == {<<1>>}

WrapperModes == {"ADD", "AND"}

Init ==
    /\ pending = NoCall
    /\ last = NoCall
    /\ Idle

Next ==
    \/ \E data \in Args(WrapperDTypes, WrapperShapes) : NewGeneric(data)
    \/ \E data \in Args(WrapperDTypes, WrapperShapes), d \in WrapperDTypes \cup {""} :
            NewTensorWrapper(data, d)
    \/ \E x \in 1..MaxWrappers, other \in Args(WrapperDTypes, WrapperShapes) :
            DoReset(x, other)
    \/ \E x \in 1..MaxWrappers, mode \in WrapperModes,
          v \in Operands2(WrapperDTypes, WrapperShapes),
          out \in Outs(WrapperDTypes, WrapperShapes) :
            DoInplace(x, mode, v, out)
    \/ \E x \in 1..MaxWrappers, index \in Indices,
          v \in Args(WrapperDTypes, WrapperShapes),
          out \in Outs(WrapperDTypes, WrapperShapes) :
            DoSetItem(x, index, v, out)

Spec == Init /\ [][Next]_vars

(***************************************************************************)
(* Iteration.  __iter__ is a generator function: iter(x) makes a generator *)
(* object and runs nothing; the first next() evaluates range(len(self))    *)
(* and each next() runs to the following yield.                            *)
(***************************************************************************)
Generator(w) ==
    [w |-> w, st |-> "created", n |-> 0, i |-> 0, exc |-> "", yielded |-> <<>>]

\* __len__(self): the first extent, TypeError("ndim is 0") for a rank-0 tensor
LenOf(ws, ts, w) ==
    IF ws[w].ref = NoneRef THEN Raise("AttributeError", "shape", <<>>, <<>>)
    ELSE IF ts[ws[w].ref].shape = <<>> THEN Raise("TypeError", "ndim is 0", <<>>, <<>>)
    ELSE Return(<<ts[ws[w].ref].shape[1]>>, <<>>)

\* yield self[i]: __getitem__ hands (self, i) to indexing.getitem, which may raise
YieldItem(ws, g, i, gok) ==
    IF gok
    THEN [g EXCEPT !.st = "suspended", !.i = i,
                   !.yielded = Append(@, i)]
    ELSE [g EXCEPT !.st = "failed", !.exc = "IndexingError"]

\* one step of the for loop over range(n): the next index, or the end
Advance(ws, g, i, gok) ==
    IF i < g.n THEN YieldItem(ws, g, i, gok) ELSE [g EXCEPT !.st = "done"]

ResumeRelen(ws, ts, g, gok) ==
    LET n == LenOf(ws, ts, g.w)
    IN  IF n.status = "raise" THEN [g EXCEPT !.st = "failed", !.exc = n.exc]
        ELSE Advance(ws, [g EXCEPT !.n = n.args[1]],
                     IF g.st = "created" THEN 0 ELSE g.i + 1, gok)

\* next(g) on the generator of __iter__:
\*   for i in range(len(self)): yield self[i]
Resume(ws, ts, g, gok) ==
    IF g.st = "created"
    THEN LET n == LenOf(ws, ts, g.w)
         IN  IF n.status = "raise" THEN [g EXCEPT !.st = "failed", !.exc = n.exc]
             ELSE Advance(ws, [g EXCEPT !.n = n.args[1]], 0, gok)
    ELSE Advance(ws, g, g.i + 1, gok)

Running(g) == g.st \in {"created", "suspended"}

\* iter(x): a new generator object; one that has ended is dropped for it
DoIter(x) ==
    /\ x \in Live(wrappers)
    /\ \/ /\ Len(iters) < MaxIters
          /\ iters' = Append(iters, Generator(x))
       \/ /\ Len(iters) = MaxIters
          /\ \E k \in DOMAIN iters :
                /\ ~Running(iters[k])
                /\ iters' = [iters EXCEPT ![k] = Generator(x)]
    /\ last' = [op |-> "iter", self |-> x, status |-> "ok", exc |-> ""]
    /\ trace' = <<>>
    /\ UNCHANGED <<pending, wrappers, tensors>>

DoNext(k, gok) ==
    /\ k \in DOMAIN iters
    /\ Running(iters[k])
    /\ LET g == Resume(wrappers, tensors, iters[k], gok)
       IN  /\ iters' = [iters EXCEPT ![k] = g]
           /\ last' = [op |-> "next", self |-> k,
                       status |-> CASE g.st = "suspended" -> "ok"
                                    [] g.st = "done" -> "stop"
                                    [] OTHER -> "raise",
                       exc |-> g.exc]
           /\ trace' = IF g.st = "suspended"
                       THEN << [ev |-> "getitem", w |-> g.w, index |-> g.i] >>
                       ELSE <<>>
    /\ UNCHANGED <<pending, wrappers, tensors>>

IterShapes == {<<>>} \cup {<<n>> : n \in 0..MaxLen}

IterDTypes == {"float32"}

\* one wrapper, made from an array, is iterated and rebound: by an in-place
\* operator to a new tensor of any shape, by x[...] = t to a tensor made before
NextIter ==
    \/ \E sh \in IterShapes :
            Live(wrappers) = {} /\ NewTensorWrapper(NdArray("float32", sh), "")
    \/ \E x \in 1..MaxWrappers, out \in Outs(IterDTypes, IterShapes) :
            DoInplace(x, "ADD", NdArray("float32", <<1>>), out)
    \/ \E x \in 1..MaxWrappers, t \in 1..Len(tensors) :
            DoSetItem(x, "Ellipsis", TensorVal(t), Out("raise", "", <<>>))
    \/ \E x \in 1..MaxWrappers : DoIter(x)
    \/ \E k \in 1..MaxIters, gok \in BOOLEAN : DoNext(k, gok)

SpecIter == Init /\ [][NextIter]_vars

(***************************************************************************)
(* Properties.                                                             *)
(***************************************************************************)
Events(tr, ev) == {k \in DOMAIN tr : tr[k].ev = ev}

Min(S) == CHOOSE m \in S : \A k \in S : m <= k

\* the integer a target entry (given as twice its value) converts to:
\* the one nearest to zero of the two around it
Trunc(h) ==
    CHOOSE v \in (-NegDepth)..MaxDim :
        IF h >= 0 THEN 2 * v <= h /\ h < 2 * v + 2 ELSE 2 * v - 2 < h /\ h <= 2 * v

Target == [k \in DOMAIN last.shape |-> Trunc(last.shape[k])]

MinusOnes == {k \in DOMAIN Target : Target[k] = -1}

Below == {k \in DOMAIN Target : Target[k] < -1}

SecondMinusOne == Min(MinusOnes \ {Min(MinusOnes)})

ReportsMultiple ==
    /\ last.fmt = "multiple -1 in shape: {} & {}"
    /\ last.args = <<Min(MinusOnes) - 1, SecondMinusOne - 1>>

ReportsBelow ==
    /\ last.fmt = "expect shape[{}] >= -1, got {}"
    /\ last.args = <<Min(Below) - 1, Target[Min(Below)]>>

Rejected ==
    /\ last.status = "raise"
    /\ last.exc = "ValueError"
    /\ Events(trace, "apply") = {}

Integral == \A k \in DOMAIN last.shape : last.shape[k] % 2 = 0

\* C4 as stated, for targets of integers: a target with two or more entries
\* equal to -1 is rejected with a ValueError naming the positions of the first
\* and the second -1, and the reshape primitive is not invoked.
C4_AsStated ==
    LET ones == {k \in DOMAIN last.shape : last.shape[k] = -2}
    IN  (last.op = "reshape" /\ Integral /\ Cardinality(ones) >= 2) =>
            /\ Rejected
            /\ last.fmt = "multiple -1 in shape: {} & {}"
            /\ last.args = <<Min(ones) - 1, Min(ones \ {Min(ones)}) - 1>>

\* C4 amended: a target whose entries, converted to int, hold two or more -1
\* is rejected with a ValueError and the primitive is not invoked; the message
\* names the positions of the first and the second -1 unless a converted entry
\* below -1 stands before the second -1, and then it names the position and
\* the value of the first such entry.
C4_MultipleMinusOne ==
    (last.op = "reshape" /\ Cardinality(MinusOnes) >= 2) =>
        /\ Rejected
        /\ IF \E k \in Below : k < SecondMinusOne THEN ReportsBelow ELSE ReportsMultiple

C4_Witness ==
    /\ last.op = "reshape"
    /\ Cardinality(MinusOnes) >= 2
    /\ Below # {}
    /\ ReportsMultiple

\* C5 as stated, for targets of integers: a target with an entry smaller than
\* -1 is rejected with a ValueError naming the position and the value of that
\* entry, and the reshape primitive is not invoked.
C5_AsStated ==
    LET low == {k \in DOMAIN last.shape : last.shape[k] < -2}
    IN  (last.op = "reshape" /\ Integral /\ low # {}) =>
            /\ Rejected
            /\ last.fmt = "expect shape[{}] >= -1, got {}"
            /\ \E k \in low : last.args[1] = k - 1 /\ 2 * last.args[2] = last.shape[k]

\* C5 amended: a target whose entries, converted to int, hold a value below -1
\* is rejected with a ValueError and the primitive is not invoked; the message
\* names the position and the converted value of the first such entry unless
\* two -1 stand before it, and then it names the positions of those two.
C5_BelowMinusOne ==
    (last.op = "reshape" /\ Below # {}) =>
        /\ Rejected
        /\ IF Cardinality({k \in MinusOnes : k < Min(Below)}) >= 2
           THEN ReportsMultiple ELSE ReportsBelow

C5_Witness ==
    /\ last.op = "reshape"
    /\ Below # {}
    /\ MinusOnes # {}
    /\ ReportsBelow
    /\ Min(Below) > 1

\* C6: a logical operator (and, or, xor, or a reflected form) on operands of
\* which at least one is not boolean-typed fails with a TypeError and the
\* elementwise primitive is not invoked.
C6_TypeErrorBeforeApply ==
    (last.op = "logical" /\ (last.self.elem # "bool" \/ last.value.elem # "bool")) =>
        /\ last.status = "raise"
        /\ last.exc = "TypeError"
        /\ Events(trace, "apply") = {}

\* the number of elements of a tensor: the number of its index tuples
Elements(shape) ==
    Cardinality({ix \in [DOMAIN shape -> 0..MaxExtent] :
                    \A k \in DOMAIN shape : ix[k] < shape[k]})

\* C7 as stated: each of index, bool, int, float, complex succeeds if and only
\* if the tensor holds exactly one element, and fails with the scalar-required
\* error (the assertion of item) otherwise.
C7_AsStated ==
    last.op = "convert" =>
        /\ last.status = "ok" <=> Elements(last.shape) = 1
        /\ last.status = "raise" => last.exc = "AssertionError"

\* C7 amended: a conversion of a tensor that does not hold exactly one element
\* fails with the assertion of item and returns nothing; of a tensor that
\* holds exactly one element, bool, float and complex succeed, int succeeds
\* unless the element is nan or an infinity, and index succeeds only for a
\* bool or int element.
C7_Conversions ==
    last.op = "convert" =>
        IF Elements(last.shape) # 1
        THEN last.status = "raise" /\ last.exc = "AssertionError"
        ELSE last.status = "ok" <=>
                /\ last.conv = "index" => last.elem \in {"bool", "int"}
                /\ last.conv = "int" => last.elem \notin {"nan", "inf"}

C7_Witness ==
    /\ last.op = "convert"
    /\ last.conv = "int"
    /\ Len(last.shape) = MaxRank
    /\ last.status = "ok"
    /\ last.args = <<"int", "float">>

Constructors == {"GenericTensorWrapper", "TensorWrapper"}

Rebinders == {"inplace", "__setitem__", "_reset"}

\* C1: an in-place operator that completes returns the wrapper it was applied
\* to, which then holds the tensor of the result of the non-mutating operator,
\* a new one; the operator was evaluated once, before the one rebind; and the
\* in-place operator raises after the operator was evaluated only when that
\* raised or returned NotImplemented.
C1_InplaceRebinds ==
    last.op = "inplace" =>
        /\ last.status = "ok" =>
              /\ last.ret = last.self
              /\ wrappers[last.self].ref = last.ref
              /\ last.ref = Len(tensors)
              /\ Len(trace) = 2
              /\ trace[1].ev = "apply"
              /\ trace[2] = RebindEv(last.self, last.ref)
        /\ (last.status = "raise" /\ trace # <<>>) =>
              /\ trace[1].ev = "apply"
              /\ Len(trace) = 1
              /\ last.exc \in {"EngineError", "NotImplementedError"}

C1_Witness ==
    /\ last.op = "inplace"
    /\ last.status = "ok"
    /\ last.arg.k = "wrapper"
    /\ wrappers[last.self].cls = "Generic"
    /\ last.ref > 1

\* C2: a step in which an in-place operator, __setitem__ or _reset raises
\* leaves every wrapper's reference, and the dtype and shape of every tensor,
\* as they were.
C2_FailureChangesNothing ==
    [][(last'.op \in Rebinders /\ last'.status = "raise") =>
            /\ wrappers' = wrappers
            /\ \A t \in DOMAIN tensors : t \in DOMAIN tensors' /\ tensors'[t] = tensors[t]
      ]_vars

C2_Witness ==
    /\ last.op = "_reset"
    /\ last.status = "raise"
    /\ last.exc = "TypeError"
    /\ \E w \in Live(wrappers) : wrappers[w].cls = "Generic" /\ wrappers[w].ref # NoneRef

\* C3: every wrapper that exists holds a tensor, never None, and constructing
\* a wrapper of either class with data None raises and makes no wrapper.
C3_AlwaysBound ==
    /\ \A w \in Live(wrappers) : wrappers[w].ref # NoneRef
    /\ (last.op \in Constructors /\ last.arg.k = "None") => last.status = "raise"

\* the reference x[...] = value gives x: that of a wrapper, a tensor itself, a
\* new tensor made from an array with the dtype x had
Denotes(x, v) ==
    CASE v.k = "wrapper" -> wrappers'[x].ref = wrappers[v.id].ref
      [] v.k = "tensor" -> wrappers'[x].ref = v.id
      [] OTHER ->
            /\ wrappers'[x].ref = Len(tensors) + 1
            /\ tensors'[Len(tensors) + 1].dtype = tensors[wrappers[x].ref].dtype

\* C9: a step in which x[index] = value completes rebinds x once and no other
\* wrapper; with an index it calls the setitem collaborator once, before the
\* rebind, and x holds the collaborator's result, a new tensor; with Ellipsis
\* it calls no collaborator and x holds what value denotes.
C9_SetItemRebindsOnce ==
    [][(last'.op = "__setitem__" /\ last'.status = "ok") =>
            LET x == last'.self
            IN  /\ Cardinality(Events(trace', "rebind")) = 1
                /\ trace'[Len(trace')] = RebindEv(x, wrappers'[x].ref)
                /\ wrappers'[x].cls = wrappers[x].cls
                /\ \A w \in DOMAIN wrappers : w # x => wrappers'[w] = wrappers[w]
                /\ IF last'.index = "Ellipsis"
                   THEN /\ Events(trace', "setitem") = {}
                        /\ Denotes(x, last'.arg)
                   ELSE /\ Events(trace', "setitem") = {1}
                        /\ trace'[1].w = x
                        /\ Len(trace') = 2
                        /\ wrappers'[x].ref = Len(tensors) + 1
                        /\ Len(tensors') = Len(tensors) + 1
      ]_vars

C9_Witness ==
    /\ last.op = "__setitem__"
    /\ last.status = "ok"
    /\ last.index = "Ellipsis"
    /\ last.arg.k = "ndarray"
    /\ Cardinality(Live(wrappers)) = 2

\* C10: a TensorWrapper constructed from a wrapper holds that wrapper's
\* reference and no tensor is made; and a step of any operation changes no
\* wrapper but the one it is applied to.
C10_RebindIsLocal ==
    [][/\ (last'.op = "TensorWrapper" /\ last'.status = "ok" /\ last'.arg.k = "wrapper") =>
              /\ wrappers'[last'.self].ref = wrappers[last'.arg.id].ref
              /\ tensors' = tensors
       /\ \A w \in Live(wrappers) : w # last'.self => wrappers'[w] = wrappers[w]
      ]_vars

C10_Witness ==
    /\ last.op = "inplace"
    /\ last.status = "ok"
    /\ \E w \in Live(wrappers) :
          /\ w # last.self
          /\ wrappers[w].cls = "Tensor"
          /\ wrappers[w].ref # NoneRef
          /\ wrappers[w].ref # wrappers[last.self].ref

Counts(g) == g.yielded = [k \in 1..Len(g.yielded) |-> k - 1]

====
